---- MODULE Spec2Model ----
(***************************************************************************)
(* A model of blugelabs/query_string: ParseQueryString, its goyacc grammar *)
(* (query_string.y) run as the LALR(1) shift/reduce machine goyacc builds  *)
(* from it, and the query-builder functions the reductions call.           *)
(*                                                                         *)
(* A string is a sequence of one-character strings.  A message is a        *)
(* sequence of pieces: constant texts and the characters of a payload.     *)
(***************************************************************************)
EXTENDS Naturals, Integers, Sequences, FiniteSets, TLC

VARIABLES
    pc,         \* where ParseQueryString is: "idle", "parsing", "panic",
                \* "parsed", "done"
    options,    \* the QueryStringOptions value of the call
    query,      \* the runes of the query the reader has handed out so far
    eof,        \* the reader has reported io.EOF: query is the whole input
    created,    \* newLexerWrapper has run
    lexState,   \* the lexer's state function
    buf,        \* the lexer's payload buffer
    inRegex,    \* the lexer is between the slashes of a /.../ run
    pending,    \* a rune the lexer read and did not consume
    tokens,     \* the tokens Lex has returned, in order
    lookahead,  \* yyrcvr.char: <<>> or the one token read ahead
    stack,      \* yyS: the parser's stack of [st, v]
    errs,       \* lexerWrapper.errs
    tree,       \* lexerWrapper.query, the BooleanQuery being filled
    domain,     \* the domain the caller's query comes from
    r,          \* doParse's recover(): <<>> or the panic value
    logged,     \* number of lines written to the logger
    ret,        \* what ParseQueryString returned: [rq, err]
    other       \* the calls that run beside this one and are not at a step
                \* now: <<>>, or the frame of one such call

vars == <<pc, options, query, eof, created, lexState, buf, inRegex, pending,
          tokens, lookahead, stack, errs, tree, domain, r, logged, ret, other>>

lexVars == <<lexState, buf, inRegex, pending>>

-----------------------------------------------------------------------------
(* Bounds of the model.  The queries come from five domains, each a set   *)
(* of characters, a longest query and a longest token payload.             *)

\* queries over the whole alphabet
MaxLen == 3
MaxPayload == 3
\* field and range queries
MaxLenRange == 7
MaxPayloadRange == 1
\* date ranges
MaxLenDate == 7
MaxPayloadDate == 2
\* suffixes and lists of clauses
MaxLenSuffix == 5
MaxPayloadSuffix == 2
\* regular expressions and wildcards
MaxLenString == 5
MaxPayloadString == 3
\* digits a numeral may have before ParseFloat reports it out of range
\* (float64 holds 309; the model scales the range down)
FloatMaxDigits == 2

-----------------------------------------------------------------------------
(* Characters.                                                             *)

Letters == {"a"}
Digits == {"1", "5"}
Operators == {"+", "-", ":", ">", "<", "="}
Alphabet ==
    Letters \cup {"5"} \cup Operators
        \cup {"^", "~", " ", "/", "*", "\"", "%"}
RangeAlphabet == {"a", ":", ">", "<", "=", "-", "5", "\"", "~", "^"}
DateAlphabet == {"a", ":", ">", "\"", "5"}
SuffixAlphabet == {"a", "5", "^", "~", " ", "-", "+"}
StringAlphabet == {"a", "/", "*", ":", " "}

Domain(chars, maxLen, maxPayload) ==
    [chars |-> chars, maxLen |-> maxLen, maxPayload |-> maxPayload]

FullDomain == Domain(Alphabet, MaxLen, MaxPayload)
RangeDomain == Domain(RangeAlphabet, MaxLenRange, MaxPayloadRange)
SuffixDomain == Domain(SuffixAlphabet, MaxLenSuffix, MaxPayloadSuffix)
StringDomain == Domain(StringAlphabet, MaxLenString, MaxPayloadString)
DateDomain == Domain(DateAlphabet, MaxLenDate, MaxPayloadDate)

AllIn(s, S) == \A i \in 1..Len(s) : s[i] \in S

-----------------------------------------------------------------------------
(* The Go library calls the parser makes, by what they do.                 *)

HasPrefix(s, c) == Len(s) >= 1 /\ s[1] = c
HasSuffix(s, c) == Len(s) >= 1 /\ s[Len(s)] = c
ContainsAny(s, S) == \E i \in 1..Len(s) : s[i] \in S

DigitVal(c) == IF c = "5" THEN 5 ELSE IF c = "1" THEN 1 ELSE 0

RECURSIVE DigitsValue(_)
DigitsValue(ds) ==
    IF ds = <<>> THEN 0
    ELSE 10 * DigitsValue(SubSeq(ds, 1, Len(ds) - 1)) + DigitVal(ds[Len(ds)])

\* strconv.Quote: a double quote is written as backslash, quote
RECURSIVE Quote(_)
Quote(s) ==
    IF s = <<>> THEN <<>>
    ELSE (IF Head(s) = "\"" THEN <<"\\", "\"">> ELSE <<Head(s)>>) \o Quote(Tail(s))

NumErrorMsg(s, why) ==
    <<"strconv.ParseFloat: parsing ", "\"">> \o Quote(s) \o <<"\"", why>>

\* strconv.ParseFloat(s, 64): an optional sign and one or more digits;
\* more digits than a float64 can hold are out of range
ParseFloat(s) ==
    LET signed == Len(s) >= 1 /\ s[1] \in {"+", "-"}
        ds == IF signed THEN Tail(s) ELSE s
    IN  IF ds = <<>> \/ ~AllIn(ds, Digits)
        THEN [ok |-> FALSE, v |-> 0, err |-> NumErrorMsg(s, ": invalid syntax")]
        ELSE IF Len(ds) > FloatMaxDigits
        THEN [ok |-> FALSE, v |-> 0, err |-> NumErrorMsg(s, ": value out of range")]
        ELSE [ok |-> TRUE,
              v |-> IF signed /\ s[1] = "-" THEN 0 - DigitsValue(ds) ELSE DigitsValue(ds),
              err |-> <<>>]

\* time.RFC3339 and a second layout; in a layout a digit stands for a
\* numeric field and every other character for itself
RFC3339 == <<"5">>
CustomLayout == <<"5", "5">>

\* time.Parse(layout, t)
TimeParse(layout, t) ==
    IF /\ Len(t) = Len(layout)
       /\ \A i \in 1..Len(t) :
             IF layout[i] \in Digits THEN t[i] \in Digits ELSE t[i] = layout[i]
    THEN [ok |-> TRUE,
          v |-> <<DigitsValue(SelectSeq(t, LAMBDA c : c \in Digits))>>,
          err |-> <<>>]
    ELSE [ok |-> FALSE, v |-> <<>>,
          err |-> <<"parsing time ", "\"">> \o Quote(t) \o <<"\"", ": cannot parse">>]

\* the zero time.Time{}
ZeroTime == <<>>

\* a float64 and bluge's two unbounded ends
Num(v) == [inf |-> 0, n |-> v]
MaxNumeric == [inf |-> 1, n |-> 0]
MinNumeric == [inf |-> 0 - 1, n |-> 0]

FmtFlags == {"+", "-", " ", "#", "0"}

\* fmt.Errorf(format) with no operands, from position i of the format: a
\* verb is written %!v(MISSING), %% is written %, a * width
\* %!(BADWIDTH), and a format that ends inside a verb %!(NOVERB)
RECURSIVE FormatFrom(_, _)
FormatFrom(f, i) ==
    IF i > Len(f) THEN <<>>
    ELSE IF f[i] # "%" THEN <<f[i]>> \o FormatFrom(f, i + 1)
    ELSE
      LET SkipIn(S, j) ==
              LET run == {k \in j..Len(f) : \A m \in j..k : f[m] \in S}
              IN  j + Cardinality(run)
          afterFlags == SkipIn(FmtFlags, i + 1)
          star == afterFlags <= Len(f) /\ f[afterFlags] = "*"
          afterWidth == IF star THEN afterFlags + 1 ELSE SkipIn(Digits, afterFlags)
          bad == IF star THEN <<"%!(BADWIDTH)">> ELSE <<>>
      IN  IF afterWidth > Len(f) THEN bad \o <<"%!(NOVERB)">>
          ELSE IF f[afterWidth] = "%" THEN bad \o <<"%">> \o FormatFrom(f, afterWidth + 1)
          ELSE bad \o <<"%!", f[afterWidth], "(MISSING)">> \o FormatFrom(f, afterWidth + 1)

Errorf(format) == FormatFrom(format, 1)

\* strings.Join(msgs, "\n")
RECURSIVE Join(_)
Join(msgs) ==
    IF msgs = <<>> THEN <<>>
    ELSE IF Len(msgs) = 1 THEN msgs[1]
    ELSE msgs[1] \o <<"\n">> \o Join(Tail(msgs))

-----------------------------------------------------------------------------
(* The query nodes of bluge, as far as the parser builds them.             *)

Nil == [kind |-> "nil"]
NoError == <<>>

NewMatchNoneQuery == [kind |-> "MatchNone"]
NewMatchQuery(text) ==
    [kind |-> "Match", field |-> <<>>, text |-> text, fuzziness |-> 0, boost |-> <<>>]
NewMatchPhraseQuery(text) ==
    [kind |-> "MatchPhrase", field |-> <<>>, text |-> text, boost |-> <<>>]
NewRegexpQuery(pattern) ==
    [kind |-> "Regexp", field |-> <<>>, pattern |-> pattern, boost |-> <<>>]
NewWildcardQuery(pattern) ==
    [kind |-> "Wildcard", field |-> <<>>, pattern |-> pattern, boost |-> <<>>]
NewNumericRangeInclusiveQuery(min, max, minInclusive, maxInclusive) ==
    [kind |-> "NumericRange", field |-> <<>>, min |-> min, max |-> max,
     minInclusive |-> minInclusive, maxInclusive |-> maxInclusive, boost |-> <<>>]
NewDateRangeInclusiveQuery(min, max, minInclusive, maxInclusive) ==
    [kind |-> "DateRange", field |-> <<>>, min |-> min, max |-> max,
     minInclusive |-> minInclusive, maxInclusive |-> maxInclusive, boost |-> <<>>]
NewBooleanQuery ==
    [kind |-> "Boolean", should |-> <<>>, must |-> <<>>, mustNot |-> <<>>,
     boost |-> <<>>]

SetField(q, field) == [q EXCEPT !.field = field]
SetBoost(q, b) == [q EXCEPT !.boost = <<b>>]
SetFuzziness(q, f) == [q EXCEPT !.fuzziness = f]
AddShould(b, q) == [b EXCEPT !.should = Append(@, q)]
AddMust(b, q) == [b EXCEPT !.must = Append(@, q)]
AddMustNot(b, q) == [b EXCEPT !.mustNot = Append(@, q)]

queryShould == 0
queryMust == 1
queryMustNot == 2

-----------------------------------------------------------------------------
(* The query-builder functions of query_string_parser.go.  Each returns    *)
(* [panics, msg, q, err]: the panic it raises, or its results.             *)

Returns(q, err) == [panics |-> FALSE, msg |-> <<>>, q |-> q, err |-> err]
Panics(msg) == [panics |-> TRUE, msg |-> msg, q |-> Nil, err |-> NoError]

SliceBoundsMsg == <<"runtime error: slice bounds out of range [1:0]">>
NilDerefMsg == <<"runtime error: invalid memory address or nil pointer dereference">>

queryStringStringToken(field, str) ==
    IF HasPrefix(str, "/") /\ HasSuffix(str, "/")
    THEN IF Len(str) - 1 < 1
         THEN Panics(SliceBoundsMsg)
         ELSE Returns(SetField(NewRegexpQuery(SubSeq(str, 2, Len(str) - 1)), field), NoError)
    ELSE IF ContainsAny(str, {"*", "?"})
    THEN Returns(SetField(NewWildcardQuery(str), field), NoError)
    ELSE Returns(SetField(NewMatchQuery(str), field), NoError)

queryStringStringTokenFuzzy(field, str, fuzziness) ==
    LET fuzzy == ParseFloat(fuzziness)
    IN  IF ~fuzzy.ok
        THEN Returns(Nil, <<"invalid fuzziness value: ">> \o fuzzy.err)
        ELSE Returns(SetField(SetFuzziness(NewMatchQuery(str), fuzzy.v), field), NoError)

\* a slip: the two children in the other order
queryStringNumberToken_RangeFirst(field, str) ==
    LET q1 == SetField(NewMatchQuery(str), field)
        val == ParseFloat(str)
    IN  IF ~val.ok
        THEN Returns(Nil, <<"error parsing number: ">> \o val.err)
        ELSE LET q2 == SetField(NewNumericRangeInclusiveQuery(
                                    Num(val.v), Num(val.v), TRUE, TRUE), field)
             IN  Returns(AddShould(AddShould(NewBooleanQuery, q2), q1), NoError)

queryStringNumberToken(field, str) ==
    LET q1 == SetField(NewMatchQuery(str), field)
        val == ParseFloat(str)
    IN  IF ~val.ok
        THEN Returns(Nil, <<"error parsing number: ">> \o val.err)
        ELSE LET q2 == SetField(NewNumericRangeInclusiveQuery(
                                    Num(val.v), Num(val.v), TRUE, TRUE), field)
             IN  Returns(AddShould(AddShould(NewBooleanQuery, q1), q2), NoError)

queryStringPhraseToken(field, str) ==
    Returns(SetField(NewMatchPhraseQuery(str), field), NoError)

\* a slip: the two inclusive flags in the other order
queryStringNumericRangeGreaterThanOrEqual_FlagsSwapped(field, str, orEqual) ==
    LET min == ParseFloat(str)
    IN  IF ~min.ok
        THEN Returns(Nil, <<"error parsing number: ">> \o min.err)
        ELSE Returns(SetField(NewNumericRangeInclusiveQuery(
                                  Num(min.v), MaxNumeric, TRUE, orEqual), field), NoError)

queryStringNumericRangeGreaterThanOrEqual(field, str, orEqual) ==
    LET min == ParseFloat(str)
    IN  IF ~min.ok
        THEN Returns(Nil, <<"error parsing number: ">> \o min.err)
        ELSE Returns(SetField(NewNumericRangeInclusiveQuery(
                                  Num(min.v), MaxNumeric, orEqual, TRUE), field), NoError)

queryStringNumericRangeLessThanOrEqual(field, str, orEqual) ==
    LET max == ParseFloat(str)
    IN  IF ~max.ok
        THEN Returns(Nil, <<"error parsing number: ">> \o max.err)
        ELSE Returns(SetField(NewNumericRangeInclusiveQuery(
                                  MinNumeric, Num(max.v), TRUE, orEqual), field), NoError)

queryTimeFromString(dateFormat, t) == TimeParse(dateFormat, t)

queryStringDateRangeGreaterThanOrEqual(dateFormat, field, phrase, orEqual) ==
    LET minTime == queryTimeFromString(dateFormat, phrase)
    IN  IF ~minTime.ok
        THEN Returns(Nil, <<"invalid time: ">> \o minTime.err)
        ELSE Returns(SetField(NewDateRangeInclusiveQuery(
                                  minTime.v, ZeroTime, orEqual, TRUE), field), NoError)

queryStringDateRangeLessThanOrEqual(dateFormat, field, phrase, orEqual) ==
    LET maxTime == queryTimeFromString(dateFormat, phrase)
    IN  IF ~maxTime.ok
        THEN Returns(Nil, <<"invalid time: ">> \o maxTime.err)
        ELSE Returns(SetField(NewDateRangeInclusiveQuery(
                                  ZeroTime, maxTime.v, TRUE, orEqual), field), NoError)

noBoost == 1

\* a slip: the parsed value dropped, noBoost returned either way
queryStringParseBoost_AlwaysNoBoost(str) ==
    LET boost == ParseFloat(str)
    IN  IF ~boost.ok
        THEN Returns(noBoost, <<"invalid boost value: ">> \o boost.err)
        ELSE Returns(noBoost, NoError)

\* returns (boost, err); q holds the boost
queryStringParseBoost(str) ==
    LET boost == ParseFloat(str)
    IN  IF ~boost.ok
        THEN Returns(noBoost, <<"invalid boost value: ">> \o boost.err)
        ELSE Returns(boost.v, NoError)

BoostableKinds ==
    {"Match", "Regexp", "Wildcard", "Boolean", "NumericRange", "MatchPhrase",
     "DateRange"}

queryStringSetBoost(q, b) ==
    IF q.kind \in BoostableKinds
    THEN Returns(SetBoost(q, b), NoError)
    ELSE Returns(Nil, <<"cannot boost ", q.kind>>)

-----------------------------------------------------------------------------
(* The lexer (query_string_lex.go), from its description: one rune at a    *)
(* time, it returns a token when the rune after it shows where it ends.    *)

Token(type, s) == [type |-> type, s |-> s]
EndToken == Token("$end", <<>>)

OpToken(c) ==
    CASE c = "+" -> "tPLUS"
      [] c = "-" -> "tMINUS"
      [] c = ":" -> "tCOLON"
      [] c = ">" -> "tGREATER"
      [] c = "<" -> "tLESS"
      [] c = "=" -> "tEQUAL"

\* an unescaped rune that ends a literal and is a token start of its own
Delimiters == {":", "^", "~"}

\* a literal whose whole text is a decimal numeral is a NUMBER
IsNumeral(s) == s # <<>> /\ AllIn(s, Digits)

LiteralToken(s) == Token(IF IsNumeral(s) THEN "tNUMBER" ELSE "tSTRING", s)

\* an empty suffix stands for the default, 1
SuffixToken(st, s) ==
    Token(IF st = "inBoost" THEN "tBOOST" ELSE "tTILDE",
          IF s = <<>> THEN <<"1">> ELSE s)

LexResult(st, b, rx, emit, consumed) ==
    [st |-> st, buf |-> b, rx |-> rx, emit |-> emit, consumed |-> consumed]

\* the lexer in state st with buffer b, given the rune c
LexRune(st, b, rx, c) ==
    CASE st = "start" ->
           IF c = " " THEN LexResult("start", <<>>, FALSE, <<>>, TRUE)
           ELSE IF c \in Operators
           THEN LexResult("start", <<>>, FALSE, <<Token(OpToken(c), <<>>)>>, TRUE)
           ELSE IF c = "^" THEN LexResult("inBoost", <<>>, FALSE, <<>>, TRUE)
           ELSE IF c = "~" THEN LexResult("inTilde", <<>>, FALSE, <<>>, TRUE)
           ELSE IF c = "\"" THEN LexResult("inPhrase", <<>>, FALSE, <<>>, TRUE)
           ELSE LexResult("inStr", <<c>>, c = "/", <<>>, TRUE)
      [] st = "inStr" ->
           IF (c = " " /\ ~rx) \/ c \in Delimiters
           THEN LexResult("start", <<>>, FALSE, <<LiteralToken(b)>>, c = " ")
           ELSE LexResult("inStr", Append(b, c), rx /\ c # "/", <<>>, TRUE)
      [] st = "inPhrase" ->
           IF c = "\""
           THEN LexResult("start", <<>>, FALSE, <<Token("tPHRASE", b)>>, TRUE)
           ELSE LexResult("inPhrase", Append(b, c), FALSE, <<>>, TRUE)
      [] st \in {"inBoost", "inTilde"} ->
           IF c = " " \/ c \in Delimiters
           THEN LexResult("start", <<>>, FALSE, <<SuffixToken(st, b)>>, c = " ")
           ELSE LexResult(st, Append(b, c), FALSE, <<>>, TRUE)

\* the lexer at the end of the input: [emit, err]
LexEnd(st, b) ==
    CASE st = "start" -> [emit |-> <<EndToken>>, err |-> NoError]
      [] st = "inStr" -> [emit |-> <<LiteralToken(b)>>, err |-> NoError]
      [] st = "inPhrase" -> [emit |-> <<>>, err |-> <<"unterminated quote">>]
      [] st \in {"inBoost", "inTilde"} ->
           [emit |-> <<SuffixToken(st, b)>>, err |-> NoError]

\* queryStringLex.Error: it does not return to its caller, the parse ends
\* with the message as the panic value
LexerError(msg) == Panics(msg)

-----------------------------------------------------------------------------
(* The parser goyacc builds from query_string.y: the LALR(1) states, named *)
(* after the symbols that lead to them, their shifts, gotos and            *)
(* reductions.  A state with one reduction and no shift reduces without    *)
(* reading a token; the other states reduce by default on every token they *)
(* do not shift.                                                           *)

\* yySymType
Sym == [s |-> <<>>, n |-> 0, q |-> Nil, pf |-> <<>>]

NoState == "none"

\* the state a token leads to from state st, NoState when st does not shift it
ShiftTo(st, type) ==
    CASE st \in {"S0", "Part"} /\ type = "tPLUS" -> "Plus"
      [] st \in {"S0", "Part"} /\ type = "tMINUS" -> "Minus"
      [] st = "Prefix" /\ type = "tSTRING" -> "Str"
      [] st = "Prefix" /\ type = "tNUMBER" -> "Num"
      [] st = "Prefix" /\ type = "tPHRASE" -> "Phrase"
      [] st = "Str" /\ type = "tTILDE" -> "StrTilde"
      [] st = "Str" /\ type = "tCOLON" -> "Colon"
      [] st = "Colon" /\ type = "tSTRING" -> "CStr"
      [] st = "Colon" /\ type = "tPHRASE" -> "CPhrase"
      [] st = "Colon" /\ type = "tGREATER" -> "Gt"
      [] st = "Colon" /\ type = "tLESS" -> "Lt"
      [] st = "CStr" /\ type = "tTILDE" -> "CStrTilde"
      [] st = "Gt" /\ type = "tEQUAL" -> "Ge"
      [] st = "Lt" /\ type = "tEQUAL" -> "Le"
      [] st = "Gt" /\ type = "tPHRASE" -> "GtPhrase"
      [] st = "Ge" /\ type = "tPHRASE" -> "GePhrase"
      [] st = "Lt" /\ type = "tPHRASE" -> "LtPhrase"
      [] st = "Le" /\ type = "tPHRASE" -> "LePhrase"
      [] st \in {"Colon", "Gt", "Ge", "Lt", "Le"} /\ type = "tNUMBER" -> "PNum"
      [] st \in {"Colon", "Gt", "Ge", "Lt", "Le"} /\ type = "tMINUS" -> "PMinus"
      [] st = "PMinus" /\ type = "tNUMBER" -> "PMinusNum"
      [] st = "Base" /\ type = "tBOOST" -> "Boost"
      [] OTHER -> NoState

\* the state a reduced nonterminal leads to from the state below it
GotoOn(st, nt) ==
    CASE st = "S0" /\ nt = "input" -> "Input"
      [] st = "S0" /\ nt = "searchParts" -> "Parts"
      [] st = "Part" /\ nt = "searchParts" -> "PartParts"
      [] st \in {"S0", "Part"} /\ nt = "searchPart" -> "Part"
      [] st \in {"S0", "Part"} /\ nt = "searchPrefix" -> "Prefix"
      [] st = "Prefix" /\ nt = "searchBase" -> "Base"
      [] st = "Base" /\ nt = "searchSuffix" -> "Suffix"
      [] st = "Colon" /\ nt = "posOrNegNumber" -> "CPon"
      [] st = "Gt" /\ nt = "posOrNegNumber" -> "GtPon"
      [] st = "Ge" /\ nt = "posOrNegNumber" -> "GePon"
      [] st = "Lt" /\ nt = "posOrNegNumber" -> "LtPon"
      [] st = "Le" /\ nt = "posOrNegNumber" -> "LePon"
      [] OTHER -> NoState

\* the states that reduce without a lookahead token, and their rule
SimpleRule(st) ==
    CASE st = "Parts" -> 1
      [] st = "PartParts" -> 2
      [] st = "Suffix" -> 4
      [] st = "Plus" -> 6
      [] st = "Minus" -> 7
      [] st = "StrTilde" -> 9
      [] st = "CStrTilde" -> 10
      [] st = "Num" -> 11
      [] st = "Phrase" -> 12
      [] st = "CPon" -> 14
      [] st = "CPhrase" -> 15
      [] st = "GtPon" -> 16
      [] st = "GePon" -> 17
      [] st = "LtPon" -> 18
      [] st = "LePon" -> 19
      [] st = "GtPhrase" -> 20
      [] st = "GePhrase" -> 21
      [] st = "LtPhrase" -> 22
      [] st = "LePhrase" -> 23
      [] st = "Boost" -> 25
      [] st = "PNum" -> 26
      [] st = "PMinusNum" -> 27
      [] OTHER -> 0

NeedsLookahead(st) == SimpleRule(st) = 0

\* the rule state st reduces by on a token it does not shift, 0 for none
DefaultRule(st, type) ==
    CASE st = "S0" -> 5
      [] st = "Part" -> IF type = "$end" THEN 3 ELSE 5
      [] st = "Str" -> 8
      [] st = "CStr" -> 13
      [] st = "Base" -> 24
      [] OTHER -> 0

\* the rule to reduce by in state st with lookahead la (<<>> or one token)
ReduceRule(st, la) ==
    IF ~NeedsLookahead(st) THEN SimpleRule(st)
    ELSE IF la = <<>> \/ ShiftTo(st, la[1].type) # NoState THEN 0
    ELSE DefaultRule(st, la[1].type)

-----------------------------------------------------------------------------
(* ParseQueryString.                                                       *)

DateFormats == {RFC3339, CustomLayout}

\* the QueryStringOptions values of the model; logger is "nil" or "set"
Options ==
    [debugParser : BOOLEAN, debugLexer : {FALSE}, dateFormat : DateFormats,
     logger : {"nil", "set"}]

DefaultOptions ==
    [debugParser |-> FALSE, debugLexer |-> FALSE, dateFormat |-> RFC3339,
     logger |-> "nil"]

\* the calls of the model: the domain of the query, and the options
Inputs ==
    [domain : {FullDomain}, options : Options]
        \cup [domain : {DateDomain},
              options : {[DefaultOptions EXCEPT !.dateFormat = CustomLayout]}]
        \cup [domain : {RangeDomain, SuffixDomain, StringDomain},
              options : {DefaultOptions}]

NoReturn == [rq |-> Nil, err |-> <<>>]

\* a slip: the empty query answered with an empty Boolean query
EmptyQueryResult_EmptyBoolean == [rq |-> NewBooleanQuery, err |-> <<>>]

\* the lines 73-75: what the call returns for the empty query
EmptyQueryResult == [rq |-> NewMatchNoneQuery, err |-> <<>>]

\* a slip: the tree built so far returned along with the error
ParseResult_PartialTree(es, t) ==
    IF Len(es) > 0
    THEN [rq |-> t, err |-> <<Errorf(Join(es))>>]
    ELSE [rq |-> t, err |-> <<>>]

\* the lines 79-82: what the call returns from the errors and the tree
ParseResult(es, t) ==
    IF Len(es) > 0
    THEN [rq |-> Nil, err |-> <<Errorf(Join(es))>>]
    ELSE [rq |-> t, err |-> <<>>]

\* a slip: the panic swallowed, no error recorded
Recovered_Swallowed(es, v) == es

\* the recover of doParse: the panic value becomes one more error
Recovered(es, v) == Append(es, <<"parse error: ">> \o v)

Init ==
    /\ pc = "idle"
    /\ \E i \in Inputs : domain = i.domain /\ options = i.options
    /\ query = <<>>
    /\ eof = FALSE
    /\ created = FALSE
    /\ lexState = "start"
    /\ buf = <<>>
    /\ inRegex = FALSE
    /\ pending = <<>>
    /\ tokens = <<>>
    /\ lookahead = <<>>
    /\ stack = <<>>
    /\ errs = <<>>
    /\ tree = Nil
    /\ r = <<>>
    /\ logged = 0
    /\ ret = NoReturn
    /\ other = <<>>

\* query == "": the match-none query, and nothing else happens
ParseEmpty ==
    /\ pc = "idle"
    /\ pc' = "done"
    /\ eof' = TRUE
    /\ ret' = EmptyQueryResult
    /\ UNCHANGED <<other, domain, r, options, query, created, lexVars, tokens, lookahead, stack,
                   errs, tree, logged>>

\* newLexerWrapper: a non-empty query, whose runes the lexer will read
newLexerWrapper ==
    /\ pc = "idle"
    /\ pc' = "parsing"
    /\ created' = TRUE
    /\ tree' = NewBooleanQuery
    /\ errs' = <<>>
    /\ stack' = <<[st |-> "S0", v |-> Sym]>>
    /\ UNCHANGED <<other, domain, r, options, query, eof, lexVars, tokens, lookahead, logged, ret>>

Top == stack[Len(stack)]

\* yyParse is about to call Lex
WantsToken ==
    /\ pc = "parsing"
    /\ lookahead = <<>>
    /\ NeedsLookahead(Top.st)

\* what one lexer step leaves behind
Lexed(x, c) ==
    /\ lexState' = x.st
    /\ buf' = x.buf
    /\ inRegex' = x.rx
    /\ pending' = IF x.consumed THEN <<>> ELSE <<c>>
    /\ lookahead' = x.emit
    /\ tokens' = tokens \o x.emit

\* Lex reads the next rune of the query
LexRead ==
    /\ WantsToken
    /\ pending = <<>>
    /\ ~eof
    /\ Len(query) < domain.maxLen
    /\ \E c \in domain.chars :
          /\ Len(LexRune(lexState, buf, inRegex, c).buf) <= domain.maxPayload
          /\ query' = Append(query, c)
          /\ Lexed(LexRune(lexState, buf, inRegex, c), c)
    /\ UNCHANGED <<pc, other, domain, r, options, eof, created, stack, errs, tree, logged, ret>>

\* Lex takes up the rune that ended the token before
LexPending ==
    /\ WantsToken
    /\ pending # <<>>
    /\ Lexed(LexRune(lexState, buf, inRegex, pending[1]), pending[1])
    /\ UNCHANGED <<pc, other, domain, r, options, query, eof, created, stack, errs, tree, logged, ret>>

\* Lex finds the reader at the end of the query
LexEOF ==
    /\ WantsToken
    /\ pending = <<>>
    /\ query # <<>>
    /\ LET e == LexEnd(lexState, buf)
       IN  IF e.err # NoError
           THEN /\ r' = <<LexerError(e.err).msg>>
                /\ pc' = "panic"
                /\ UNCHANGED <<lookahead, tokens>>
           ELSE /\ lookahead' = e.emit
                /\ tokens' = tokens \o e.emit
                /\ UNCHANGED <<pc, r>>
    /\ eof' = TRUE
    /\ lexState' = "start"
    /\ buf' = <<>>
    /\ inRegex' = FALSE
    /\ UNCHANGED <<other, domain, options, query, created, pending, stack, errs, tree, logged,
                   ret>>

\* the parser shifts the lookahead token
Shift ==
    /\ pc = "parsing"
    /\ lookahead # <<>>
    /\ ShiftTo(Top.st, lookahead[1].type) # NoState
    /\ stack' = Append(stack, [st |-> ShiftTo(Top.st, lookahead[1].type),
                               v |-> [Sym EXCEPT !.s = lookahead[1].s]])
    /\ lookahead' = <<>>
    /\ UNCHANGED <<pc, other, domain, r, options, query, eof, created, lexVars, tokens, errs, tree,
                   logged, ret>>

\* a slip: the end of the input accepted where a searchBase is due, as a
\* grammar with an empty input would
Accept_EmptyInput ==
    /\ pc = "parsing"
    /\ lookahead # <<>>
    /\ Top.st \in {"Input", "Prefix"}
    /\ lookahead[1].type = "$end"
    /\ pc' = "parsed"
    /\ UNCHANGED <<other, domain, r, options, query, eof, created, lexVars, tokens,
                   lookahead, stack, errs, tree, logged, ret>>

\* input $end: yyParse returns 0
Accept ==
    /\ pc = "parsing"
    /\ lookahead # <<>>
    /\ Top.st = "Input"
    /\ lookahead[1].type = "$end"
    /\ pc' = "parsed"
    /\ UNCHANGED <<other, domain, r, options, query, eof, created, lexVars, tokens, lookahead, stack,
                   errs, tree, logged, ret>>

\* no action for the token: lexerWrapper.Error, no state shifts the error
\* token, and yyParse returns 1
SyntaxError ==
    /\ pc = "parsing"
    /\ lookahead # <<>>
    /\ ShiftTo(Top.st, lookahead[1].type) = NoState
    /\ ReduceRule(Top.st, lookahead) = 0
    /\ ~(Top.st = "Input" /\ lookahead[1].type = "$end")
    /\ errs' = Append(errs, <<"syntax error">>)
    /\ pc' = "parsed"
    /\ UNCHANGED <<other, domain, r, options, query, eof, created, lexVars, tokens, lookahead, stack,
                   tree, logged, ret>>

\* the deferred function of doParse: recover() returned the panic value
doParse ==
    /\ pc = "panic"
    /\ errs' = Recovered(errs, r[1])
    /\ pc' = "parsed"
    /\ UNCHANGED <<other, domain, r, options, query, eof, created, lexVars, tokens, lookahead,
                   stack, tree, logged, ret>>

\* the last lines of ParseQueryString
Return ==
    /\ pc = "parsed"
    /\ pc' = "done"
    /\ ret' = ParseResult(errs, tree)
    /\ UNCHANGED <<other, domain, r, options, query, eof, created, lexVars, tokens, lookahead, stack,
                   errs, tree, logged>>

-----------------------------------------------------------------------------
(* The reductions: the semantic actions of query_string.y.                 *)

\* logDebugGrammarf with options o panics when it logs to no logger
LogPanics(o) == o.debugParser /\ o.logger = "nil"

\* a semantic action that logs (or not) and then holds the result res of a
\* query-builder: an error result is handed to the lexer's Error
Action(o, logs, res) ==
    IF logs /\ LogPanics(o) THEN Panics(NilDerefMsg)
    ELSE IF res.panics THEN res
    ELSE IF res.err # NoError THEN LexerError(res.err)
    ELSE res

\* $i of a rule with k symbols on its right
Arg(k, i) == stack[Len(stack) - k + i].v

\* a slip: each clause put in front of its list, as a right-recursive rule
\* that appended on the way back would
searchPart_Prepend(t, n, q, pf) ==
    LET b == IF pf # <<>> THEN queryStringSetBoost(q, pf[1]) ELSE Returns(q, NoError)
    IN  IF b.err # NoError THEN LexerError(b.err)
        ELSE Returns(CASE n = queryShould -> [t EXCEPT !.should = <<b.q>> \o @]
                       [] n = queryMust -> [t EXCEPT !.must = <<b.q>> \o @]
                       [] n = queryMustNot -> [t EXCEPT !.mustNot = <<b.q>> \o @]
                       [] OTHER -> t,
                     NoError)

\* rule 4's action: boost the base if a suffix gave a boost, and append it
\* to the list of its prefix; q is the BooleanQuery after it
searchPart(t, n, q, pf) ==
    LET b == IF pf # <<>> THEN queryStringSetBoost(q, pf[1]) ELSE Returns(q, NoError)
    IN  IF b.err # NoError THEN LexerError(b.err)
        ELSE Returns(CASE n = queryShould -> AddShould(t, b.q)
                       [] n = queryMust -> AddMust(t, b.q)
                       [] n = queryMustNot -> AddMustNot(t, b.q)
                       [] OTHER -> t,
                     NoError)

\* a slip: the sign dropped
negNumber_Unsigned(s) == s

\* rule 27's action: "-" + $2
negNumber(s) == <<"-">> \o s

\* reduce by rule: pop its k symbols and push lhs with value val, unless the
\* action out panicked, which doParse recovers from
Reduce(rule, k, lhs, logs, out, val, newTree) ==
    /\ IF out.panics
       THEN /\ r' = <<out.msg>>
            /\ pc' = "panic"
            /\ UNCHANGED <<stack, tree, logged>>
       ELSE /\ LET below == SubSeq(stack, 1, Len(stack) - k)
               IN  stack' = Append(below,
                                   [st |-> GotoOn(below[Len(below)].st, lhs), v |-> val])
            /\ tree' = newTree
            /\ logged' = IF logs /\ options.debugParser THEN logged + 1 ELSE logged
            /\ UNCHANGED <<pc, r>>
    /\ UNCHANGED <<other, domain, options, query, eof, created, lexVars, tokens, lookahead,
                   errs, ret>>

Reducing(rule) ==
    /\ pc = "parsing"
    /\ ReduceRule(Top.st, lookahead) = rule

Logs(logs) == Action(options, logs, Returns(Nil, NoError))

\* a rule whose action assigns the query out.q to $$
ReduceQuery(rule, k, out) ==
    Reduce(rule, k, "searchBase", TRUE, out, [Sym EXCEPT !.q = out.q], tree)

Input ==
    /\ Reducing(1)
    /\ Reduce(1, 1, "input", TRUE, Logs(TRUE), Arg(1, 1), tree)

SearchPartsMore ==
    /\ Reducing(2)
    /\ Reduce(2, 2, "searchParts", TRUE, Logs(TRUE), Arg(2, 1), tree)

SearchPartsOne ==
    /\ Reducing(3)
    /\ Reduce(3, 1, "searchParts", TRUE, Logs(TRUE), Arg(1, 1), tree)

SearchPart ==
    /\ Reducing(4)
    /\ LET out == searchPart(tree, Arg(3, 1).n, Arg(3, 2).q, Arg(3, 3).pf)
       IN  Reduce(4, 3, "searchPart", FALSE, out, Arg(3, 1), out.q)

PrefixEmpty ==
    /\ Reducing(5)
    /\ Reduce(5, 0, "searchPrefix", FALSE, Logs(FALSE), [Sym EXCEPT !.n = queryShould], tree)

PrefixPlus ==
    /\ Reducing(6)
    /\ Reduce(6, 1, "searchPrefix", TRUE, Logs(TRUE), [Sym EXCEPT !.n = queryMust], tree)

PrefixMinus ==
    /\ Reducing(7)
    /\ Reduce(7, 1, "searchPrefix", TRUE, Logs(TRUE), [Sym EXCEPT !.n = queryMustNot], tree)

BaseString ==
    /\ Reducing(8)
    /\ ReduceQuery(8, 1, Action(options, TRUE,
           queryStringStringToken(<<>>, Arg(1, 1).s)))

BaseFuzzy ==
    /\ Reducing(9)
    /\ ReduceQuery(9, 2, Action(options, TRUE,
           queryStringStringTokenFuzzy(<<>>, Arg(2, 1).s, Arg(2, 2).s)))

BaseFieldFuzzy ==
    /\ Reducing(10)
    /\ ReduceQuery(10, 4, Action(options, TRUE,
           queryStringStringTokenFuzzy(Arg(4, 1).s, Arg(4, 3).s, Arg(4, 4).s)))

BaseNumber ==
    /\ Reducing(11)
    /\ ReduceQuery(11, 1, Action(options, TRUE,
           queryStringNumberToken(<<>>, Arg(1, 1).s)))

BasePhrase ==
    /\ Reducing(12)
    /\ ReduceQuery(12, 1, Action(options, TRUE,
           queryStringPhraseToken(<<>>, Arg(1, 1).s)))

BaseFieldString ==
    /\ Reducing(13)
    /\ ReduceQuery(13, 3, Action(options, TRUE,
           queryStringStringToken(Arg(3, 1).s, Arg(3, 3).s)))

BaseFieldNumber ==
    /\ Reducing(14)
    /\ ReduceQuery(14, 3, Action(options, TRUE,
           queryStringNumberToken(Arg(3, 1).s, Arg(3, 3).s)))

BaseFieldPhrase ==
    /\ Reducing(15)
    /\ ReduceQuery(15, 3, Action(options, TRUE,
           queryStringPhraseToken(Arg(3, 1).s, Arg(3, 3).s)))

BaseGreater ==
    /\ Reducing(16)
    /\ ReduceQuery(16, 4, Action(options, TRUE,
           queryStringNumericRangeGreaterThanOrEqual(Arg(4, 1).s, Arg(4, 4).s, FALSE)))

BaseGreaterEqual ==
    /\ Reducing(17)
    /\ ReduceQuery(17, 5, Action(options, TRUE,
           queryStringNumericRangeGreaterThanOrEqual(Arg(5, 1).s, Arg(5, 5).s, TRUE)))

BaseLess ==
    /\ Reducing(18)
    /\ ReduceQuery(18, 4, Action(options, TRUE,
           queryStringNumericRangeLessThanOrEqual(Arg(4, 1).s, Arg(4, 4).s, FALSE)))

BaseLessEqual ==
    /\ Reducing(19)
    /\ ReduceQuery(19, 5, Action(options, TRUE,
           queryStringNumericRangeLessThanOrEqual(Arg(5, 1).s, Arg(5, 5).s, TRUE)))

BaseGreaterDate ==
    /\ Reducing(20)
    /\ ReduceQuery(20, 4, Action(options, TRUE,
           queryStringDateRangeGreaterThanOrEqual(
               options.dateFormat, Arg(4, 1).s, Arg(4, 4).s, FALSE)))

BaseGreaterEqualDate ==
    /\ Reducing(21)
    /\ ReduceQuery(21, 5, Action(options, TRUE,
           queryStringDateRangeGreaterThanOrEqual(
               options.dateFormat, Arg(5, 1).s, Arg(5, 5).s, TRUE)))

BaseLessDate ==
    /\ Reducing(22)
    /\ ReduceQuery(22, 4, Action(options, TRUE,
           queryStringDateRangeLessThanOrEqual(
               options.dateFormat, Arg(4, 1).s, Arg(4, 4).s, FALSE)))

BaseLessEqualDate ==
    /\ Reducing(23)
    /\ ReduceQuery(23, 5, Action(options, TRUE,
           queryStringDateRangeLessThanOrEqual(
               options.dateFormat, Arg(5, 1).s, Arg(5, 5).s, TRUE)))

SuffixEmpty ==
    /\ Reducing(24)
    /\ Reduce(24, 0, "searchSuffix", FALSE, Logs(FALSE), Sym, tree)

SuffixBoost ==
    /\ Reducing(25)
    /\ LET out == Action(options, TRUE, queryStringParseBoost(Arg(1, 1).s))
       IN  Reduce(25, 1, "searchSuffix", TRUE, out, [Sym EXCEPT !.pf = <<out.q>>], tree)

NumberPos ==
    /\ Reducing(26)
    /\ Reduce(26, 1, "posOrNegNumber", FALSE, Logs(FALSE), [Sym EXCEPT !.s = Arg(1, 1).s], tree)

NumberNeg ==
    /\ Reducing(27)
    /\ Reduce(27, 2, "posOrNegNumber", FALSE, Logs(FALSE),
              [Sym EXCEPT !.s = negNumber(Arg(2, 2).s)], tree)

Next ==
    \/ ParseEmpty
    \/ newLexerWrapper
    \/ LexRead
    \/ LexPending
    \/ LexEOF
    \/ Shift
    \/ Accept
    \/ SyntaxError
    \/ Input
    \/ SearchPartsMore
    \/ SearchPartsOne
    \/ SearchPart
    \/ PrefixEmpty
    \/ PrefixPlus
    \/ PrefixMinus
    \/ BaseString
    \/ BaseFuzzy
    \/ BaseFieldFuzzy
    \/ BaseNumber
    \/ BasePhrase
    \/ BaseFieldString
    \/ BaseFieldNumber
    \/ BaseFieldPhrase
    \/ BaseGreater
    \/ BaseGreaterEqual
    \/ BaseLess
    \/ BaseLessEqual
    \/ BaseGreaterDate
    \/ BaseGreaterEqualDate
    \/ BaseLessDate
    \/ BaseLessEqualDate
    \/ SuffixEmpty
    \/ SuffixBoost
    \/ NumberPos
    \/ NumberNeg
    \/ doParse
    \/ Return

Spec == Init /\ [][Next]_vars

-----------------------------------------------------------------------------
(* Two calls of ParseQueryString at once.  Everything a call works on is   *)
(* made by the call (its reader and lexer, its lexerWrapper with errs and  *)
(* query, the parser's stack): that is the call's frame.  The logger is    *)
(* the caller's and may be the same for both calls; logged counts the      *)
(* lines of both.  The scheduler takes the running call off at any step    *)
(* and puts the other one on.                                              *)

\* queries of two concurrent calls
MaxLenPair == 3
MaxPayloadPair == 2

PairAlphabet == {"a", " ", "^"}
PairDomain == Domain(PairAlphabet, MaxLenPair, MaxPayloadPair)

\* the calls of the two-call model: default options, and the parser's debug
\* lines on, with a logger and with none
PairInputs ==
    [domain : {PairDomain},
     options : {DefaultOptions,
                [DefaultOptions EXCEPT !.debugParser = TRUE, !.logger = "set"],
                [DefaultOptions EXCEPT !.debugParser = TRUE]}]

\* the frame of the call at a step now
Frame ==
    [pc |-> pc, options |-> options, query |-> query, eof |-> eof,
     created |-> created, lexState |-> lexState, buf |-> buf, inRegex |-> inRegex,
     pending |-> pending, tokens |-> tokens, lookahead |-> lookahead,
     stack |-> stack, errs |-> errs, tree |-> tree, domain |-> domain, r |-> r,
     ret |-> ret]

\* the frame of a call that has not begun
IdleFrame(i) ==
    [pc |-> "idle", options |-> i.options, query |-> <<>>, eof |-> FALSE,
     created |-> FALSE, lexState |-> "start", buf |-> <<>>, inRegex |-> FALSE,
     pending |-> <<>>, tokens |-> <<>>, lookahead |-> <<>>, stack |-> <<>>,
     errs |-> <<>>, tree |-> Nil, domain |-> i.domain, r |-> <<>>, ret |-> NoReturn]

\* a slip: the error list kept outside the call, one for all calls
Resume_SharedErrs(f) == [f EXCEPT !.errs = errs]

\* what a call finds when it is put on again: its own frame, as it left it
Resume(f) == f

InitPair ==
    \E i \in PairInputs, j \in PairInputs :
        LET f == IdleFrame(i)
        IN  /\ pc = f.pc
            /\ options = f.options
            /\ query = f.query
            /\ eof = f.eof
            /\ created = f.created
            /\ lexState = f.lexState
            /\ buf = f.buf
            /\ inRegex = f.inRegex
            /\ pending = f.pending
            /\ tokens = f.tokens
            /\ lookahead = f.lookahead
            /\ stack = f.stack
            /\ errs = f.errs
            /\ tree = f.tree
            /\ domain = f.domain
            /\ r = f.r
            /\ ret = f.ret
            /\ other = <<IdleFrame(j)>>
            /\ logged = 0

\* the running call is taken off and the other call put on
Switch ==
    /\ other # <<>>
    /\ LET f == Resume(other[1])
       IN  /\ pc' = f.pc
           /\ options' = f.options
           /\ query' = f.query
           /\ eof' = f.eof
           /\ created' = f.created
           /\ lexState' = f.lexState
           /\ buf' = f.buf
           /\ inRegex' = f.inRegex
           /\ pending' = f.pending
           /\ tokens' = f.tokens
           /\ lookahead' = f.lookahead
           /\ stack' = f.stack
           /\ errs' = f.errs
           /\ tree' = f.tree
           /\ domain' = f.domain
           /\ r' = f.r
           /\ ret' = f.ret
    /\ other' = <<Frame>>
    /\ UNCHANGED logged

\* the call that is on takes its next step
CallStep == other # <<>> /\ Next

NextPair ==
    \/ CallStep
    \/ Switch

SpecPair == InitPair /\ [][NextPair]_vars

-----------------------------------------------------------------------------
(* The grammar of query_string.y read as a grammar: the searchParts a      *)
(* token sequence divides into, and the clause each stands for.  The       *)
(* properties below compare the parser's results with these.               *)

\* the tokens of the query, without the end marker
Toks ==
    IF tokens # <<>> /\ tokens[Len(tokens)].type = "$end"
    THEN SubSeq(tokens, 1, Len(tokens) - 1)
    ELSE tokens

Ty(ts, i) == IF i \in 1..Len(ts) THEN ts[i].type ELSE "none"

\* posOrNegNumber at position i: the number of its tokens, 0 for none
PonLen(ts, i) ==
    IF Ty(ts, i) = "tNUMBER" THEN 1
    ELSE IF Ty(ts, i) = "tMINUS" /\ Ty(ts, i + 1) = "tNUMBER" THEN 2
    ELSE 0

ValueLen(ts, i) == IF Ty(ts, i) = "tPHRASE" THEN 1 ELSE PonLen(ts, i)

\* searchBase at position i: the number of its tokens, 0 for none
BaseLen(ts, i) ==
    IF Ty(ts, i) \in {"tNUMBER", "tPHRASE"} THEN 1
    ELSE IF Ty(ts, i) # "tSTRING" THEN 0
    ELSE IF Ty(ts, i + 1) = "tTILDE" THEN 2
    ELSE IF Ty(ts, i + 1) # "tCOLON" THEN 1
    ELSE IF Ty(ts, i + 2) = "tSTRING"
    THEN (IF Ty(ts, i + 3) = "tTILDE" THEN 4 ELSE 3)
    ELSE IF Ty(ts, i + 2) \in {"tGREATER", "tLESS"}
    THEN LET e == IF Ty(ts, i + 3) = "tEQUAL" THEN 1 ELSE 0
             v == ValueLen(ts, i + 3 + e)
         IN  IF v = 0 THEN 0 ELSE 3 + e + v
    ELSE LET v == ValueLen(ts, i + 2)
         IN  IF v = 0 THEN 0 ELSE 2 + v

\* searchParts from position i: [ok, parts], each part its prefix token
\* type ("none" for no prefix), its base tokens and its suffix tokens
RECURSIVE GrammarParts(_, _)
GrammarParts(ts, i) ==
    IF i > Len(ts) THEN [ok |-> TRUE, parts |-> <<>>]
    ELSE LET p == IF Ty(ts, i) \in {"tPLUS", "tMINUS"} THEN 1 ELSE 0
             b == BaseLen(ts, i + p)
             x == IF Ty(ts, i + p + b) = "tBOOST" THEN 1 ELSE 0
         IN  IF b = 0 THEN [ok |-> FALSE, parts |-> <<>>]
             ELSE LET rest == GrammarParts(ts, i + p + b + x)
                  IN  [ok |-> rest.ok,
                       parts |-> <<[prefix |-> IF p = 1 THEN Ty(ts, i) ELSE "none",
                                    base |-> SubSeq(ts, i + p, i + p + b - 1),
                                    suffix |-> SubSeq(ts, i + p + b, i + p + b + x - 1)]>>
                                 \o rest.parts]

\* input: one or more searchParts
Derivable(ts) == ts # <<>> /\ GrammarParts(ts, 1).ok

Parts == GrammarParts(Toks, 1).parts

\* the value of a numeral text
Value(s) == ParseFloat(s).v

MatchNode(f, t, fz, b) ==
    [kind |-> "Match", field |-> f, text |-> t, fuzziness |-> fz, boost |-> b]
NumericNode(f, lo, hi, loInc, hiInc, b) ==
    [kind |-> "NumericRange", field |-> f, min |-> lo, max |-> hi,
     minInclusive |-> loInc, maxInclusive |-> hiInc, boost |-> b]
DateNode(f, lo, hi, loInc, hiInc, b) ==
    [kind |-> "DateRange", field |-> f, min |-> lo, max |-> hi,
     minInclusive |-> loInc, maxInclusive |-> hiInc, boost |-> b]
NumberNode(f, s, b) ==
    [kind |-> "Boolean",
     should |-> <<MatchNode(f, s, 0, <<>>),
                  NumericNode(f, Num(Value(s)), Num(Value(s)), TRUE, TRUE, <<>>)>>,
     must |-> <<>>, mustNot |-> <<>>, boost |-> b]
StringNode(f, s, b) ==
    IF Len(s) >= 1 /\ s[1] = "/" /\ s[Len(s)] = "/"
    THEN [kind |-> "Regexp", field |-> f, pattern |-> SubSeq(s, 2, Len(s) - 1),
          boost |-> b]
    ELSE IF \E i \in 1..Len(s) : s[i] \in {"*", "?"}
    THEN [kind |-> "Wildcard", field |-> f, pattern |-> s, boost |-> b]
    ELSE MatchNode(f, s, 0, b)
PhraseNode(f, s, b) ==
    [kind |-> "MatchPhrase", field |-> f, text |-> s, boost |-> b]

\* the text of the posOrNegNumber that ends the base tokens b
SignedText(b) ==
    IF Len(b) >= 2 /\ b[Len(b) - 1].type = "tMINUS"
    THEN <<"-">> \o b[Len(b)].s
    ELSE b[Len(b)].s

\* field OP value: the range for operator b[3], "or equal" when b[4] is =
RangeNode(b, layout, bst) ==
    LET f == b[1].s
        greater == b[3].type = "tGREATER"
        orEqual == b[4].type = "tEQUAL"
        last == b[Len(b)]
    IN  IF last.type = "tPHRASE"
        THEN LET t == TimeParse(layout, last.s).v
             IN  IF greater THEN DateNode(f, t, ZeroTime, orEqual, TRUE, bst)
                 ELSE DateNode(f, ZeroTime, t, TRUE, orEqual, bst)
        ELSE LET v == Num(Value(SignedText(b)))
             IN  IF greater THEN NumericNode(f, v, MaxNumeric, orEqual, TRUE, bst)
                 ELSE NumericNode(f, MinNumeric, v, TRUE, orEqual, bst)

\* the boost a part's suffix sets: none without a suffix
PartBoost(part) ==
    IF part.suffix = <<>> THEN <<>> ELSE <<Value(part.suffix[1].s)>>

\* the clause a searchPart stands for
Clause(part, layout) ==
    LET b == part.base
        bst == PartBoost(part)
        fielded == Len(b) >= 3 /\ b[2].type = "tCOLON"
        f == IF fielded THEN b[1].s ELSE <<>>
        first == IF fielded THEN b[3] ELSE b[1]
        last == b[Len(b)]
    IN  IF last.type = "tTILDE" THEN MatchNode(f, first.s, Value(last.s), bst)
        ELSE IF first.type \in {"tGREATER", "tLESS"} THEN RangeNode(b, layout, bst)
        ELSE IF first.type = "tPHRASE" THEN PhraseNode(f, first.s, bst)
        ELSE IF first.type = "tSTRING" THEN StringNode(f, first.s, bst)
        ELSE NumberNode(f, IF fielded THEN SignedText(b) ELSE first.s, bst)

\* the clauses of the parts with prefix p, in the order of the parts
RECURSIVE ClausesOf(_, _, _)
ClausesOf(ps, p, layout) ==
    IF ps = <<>> THEN <<>>
    ELSE (IF Head(ps).prefix = p THEN <<Clause(Head(ps), layout)>> ELSE <<>>)
             \o ClausesOf(Tail(ps), p, layout)

\* the node the tree rq holds for part i of ps
NodeOfPart(rq, ps, i) ==
    LET k == Cardinality({j \in 1..i : ps[j].prefix = ps[i].prefix})
    IN  CASE ps[i].prefix = "none" -> rq.should[k]
          [] ps[i].prefix = "tPLUS" -> rq.must[k]
          [] ps[i].prefix = "tMINUS" -> rq.mustNot[k]

Done == pc = "done"
\* the call ran the parser and returned a query
Succeeded == Done /\ created /\ ret.err = <<>>
\* the call ran the parser and returned an error
Failed == Done /\ created /\ ret.err # <<>>

-----------------------------------------------------------------------------
(* The properties.                                                         *)

\* C1: a call on a non-empty query returns either no query and one error
\* whose message is the recorded messages joined by newlines, in order, or,
\* with no error recorded, the completed tree and no error.
C1_ErrorsJoinedOrTree ==
    (Done /\ created) =>
        IF errs # <<>>
        THEN ret = [rq |-> Nil, err |-> <<Join(errs)>>]
        ELSE ret = [rq |-> tree, err |-> <<>>]

\* C2: the empty query returns the match-none query and no error, for every
\* options value, and no lexer or parser state is made and no error recorded.
C2_EmptyQueryMatchNone ==
    (Done /\ query = <<>>) =>
        /\ ret = [rq |-> [kind |-> "MatchNone"], err |-> <<>>]
        /\ ~created
        /\ stack = <<>> /\ tokens = <<>> /\ lookahead = <<>> /\ tree = Nil
        /\ lexState = "start" /\ buf = <<>>
        /\ errs = <<>> /\ r = <<>> /\ logged = 0

C2_Witness ==
    Done /\ query = <<>> /\ options.debugParser /\ options.logger = "nil"

\* C3: after a successful parse each searchPart of the query is in exactly
\* one list of the one Boolean result, the list of its prefix, the three
\* lists hold as many elements as there are searchParts, and each list is
\* in the order of the source text.
C3_PartsInPrefixListsInOrder ==
    Succeeded =>
        /\ ret.rq.kind = "Boolean"
        /\ Len(ret.rq.should) + Len(ret.rq.must) + Len(ret.rq.mustNot) = Len(Parts)
        /\ ret.rq.should = ClausesOf(Parts, "none", options.dateFormat)
        /\ ret.rq.must = ClausesOf(Parts, "tPLUS", options.dateFormat)
        /\ ret.rq.mustNot = ClausesOf(Parts, "tMINUS", options.dateFormat)

C3_Witness ==
    /\ Succeeded
    /\ Len(Parts) = 3
    /\ Len(ret.rq.should) = 2
    /\ ret.rq.should[1] # ret.rq.should[2]
    /\ Len(ret.rq.mustNot) = 1

Types(ts) == [i \in 1..Len(ts) |-> ts[i].type]

\* the field of a part: the text before the colon, empty for a bare part
FieldOf(part) ==
    IF Len(part.base) >= 3 /\ part.base[2].type = "tCOLON"
    THEN part.base[1].s
    ELSE <<>>

\* the first token of a part's base after "field:", if it has that
FirstOf(part) ==
    IF Len(part.base) >= 3 /\ part.base[2].type = "tCOLON"
    THEN part.base[3]
    ELSE part.base[1]

LastOf(part) == part.base[Len(part.base)]

IsNumberPart(part) ==
    LastOf(part).type = "tNUMBER" /\ FirstOf(part).type \in {"tNUMBER", "tMINUS"}
IsRangePart(part) == FirstOf(part).type \in {"tGREATER", "tLESS"}
IsFuzzyPart(part) == LastOf(part).type = "tTILDE"

\* a node as it was before any boost was set on it
Unboosted(q) == [q EXCEPT !.boost = <<>>]

\* the one clause of a successful parse of one searchPart with no prefix
OnlyShould(q) ==
    /\ ret.rq.should = <<q>>
    /\ ret.rq.must = <<>>
    /\ ret.rq.mustNot = <<>>

\* C4: a MINUS after "field:" or after "field:" and a range operator is the
\* sign of the number and leaves the clause in the list of its prefix, and a
\* MINUS or PLUS that begins a searchPart is its prefix: field:-5 is one
\* should clause over -5, field:>-5 a should range from -5, and -5 a mustNot
\* clause over the numeral 5; the parser holds at most one token it has not
\* consumed.
C4_MinusIsPrefixOnlyFirst ==
    /\ Len(lookahead) <= 1
    /\ Succeeded =>
        /\ \A i \in 1..Len(Parts) :
              LET part == Parts[i]
                  signed == \E k \in 2..Len(part.base) : part.base[k].type = "tMINUS"
                  q == Unboosted(NodeOfPart(ret.rq, Parts, i))
              IN  signed =>
                      /\ part.base[Len(part.base) - 1].type = "tMINUS"
                      /\ Value(SignedText(part.base)) = 0 - Value(LastOf(part).s)
                      /\ IF IsRangePart(part)
                         THEN Num(Value(SignedText(part.base))) \in {q.min, q.max}
                         ELSE q = NumberNode(FieldOf(part), <<"-">> \o LastOf(part).s, <<>>)
        /\ Types(Toks) = <<"tSTRING", "tCOLON", "tMINUS", "tNUMBER">> =>
              OnlyShould(NumberNode(Toks[1].s, <<"-">> \o Toks[4].s, <<>>))
        /\ Types(Toks) = <<"tSTRING", "tCOLON", "tGREATER", "tMINUS", "tNUMBER">> =>
              OnlyShould(NumericNode(Toks[1].s, Num(0 - Value(Toks[5].s)), MaxNumeric,
                                     FALSE, TRUE, <<>>))
        /\ Types(Toks) = <<"tMINUS", "tNUMBER">> =>
              /\ ret.rq.mustNot = <<NumberNode(<<>>, Toks[2].s, <<>>)>>
              /\ ret.rq.should = <<>>
              /\ ret.rq.must = <<>>
        /\ Types(Toks) = <<"tPLUS", "tNUMBER">> =>
              /\ ret.rq.must = <<NumberNode(<<>>, Toks[2].s, <<>>)>>
              /\ ret.rq.should = <<>>
              /\ ret.rq.mustNot = <<>>

C4_Witness ==
    /\ Succeeded
    /\ Types(Toks) = <<"tMINUS", "tSTRING", "tCOLON", "tGREATER", "tMINUS", "tNUMBER">>
    /\ Len(ret.rq.mustNot) = 1
    /\ ret.rq.mustNot[1].min = Num(0 - 5)

\* C5: the node of a NUMBER clause with text s, bare, field-qualified or
\* signed after "field:", is a Boolean with two should children, Match(s)
\* and the inclusive range [v, v] with v the value of s, both on the
\* clause's field; a successful parse has no numeral that failed to parse,
\* and a bare numeral that does not parse fails the call.
C5_NumberIsMatchOrRange ==
    /\ Succeeded =>
          \A i \in 1..Len(Parts) :
              LET part == Parts[i]
                  s == SignedText(part.base)
                  q == Unboosted(NodeOfPart(ret.rq, Parts, i))
              IN  IsNumberPart(part) =>
                      /\ ParseFloat(s).ok
                      /\ q.kind = "Boolean"
                      /\ q.must = <<>> /\ q.mustNot = <<>>
                      /\ Len(q.should) = 2
                      /\ q.should[1] = MatchNode(FieldOf(part), s, 0, <<>>)
                      /\ q.should[2] = NumericNode(FieldOf(part), Num(Value(s)),
                                                   Num(Value(s)), TRUE, TRUE, <<>>)
    /\ (/\ Done /\ created /\ tokens # <<>>
        /\ tokens[1].type = "tNUMBER"
        /\ ~ParseFloat(tokens[1].s).ok) =>
              /\ ret.rq = Nil
              /\ ret.err # <<>>
              /\ errs # <<>>

C5_Witness ==
    /\ Succeeded
    /\ Len(Parts) = 1
    /\ IsNumberPart(Parts[1]) /\ FieldOf(Parts[1]) # <<>>
    /\ SignedText(Parts[1].base) = <<"-", "5">>
    /\ Len(ret.rq.should) = 1
    /\ Len(ret.rq.should[1].should) = 2

\* C6: the node of field:OP value has the field before the colon; for > and
\* >= its min is the value, inclusive exactly for >=, and its max the
\* unbounded sentinel, inclusive; for < and <= its max is the value,
\* inclusive exactly for <=, and its min the unbounded sentinel, inclusive.
\* A NUMBER value gives a numeric range with MinNumeric and MaxNumeric, a
\* PHRASE value a date range with the zero time, the phrase parsed with the
\* configured date format, RFC 3339 by default, and a successful parse has
\* no phrase that failed to parse.
C6_RangeBoundsPerOperator ==
    /\ DefaultOptions.dateFormat = RFC3339
    /\ Succeeded =>
          \A i \in 1..Len(Parts) :
              LET part == Parts[i]
                  b == part.base
                  q == Unboosted(NodeOfPart(ret.rq, Parts, i))
                  greater == b[3].type = "tGREATER"
                  orEqual == b[4].type = "tEQUAL"
                  date == LastOf(part).type = "tPHRASE"
                  parsed == TimeParse(options.dateFormat, LastOf(part).s)
                  v == IF date THEN parsed.v ELSE Num(Value(SignedText(b)))
                  lowest == IF date THEN ZeroTime ELSE MinNumeric
                  highest == IF date THEN ZeroTime ELSE MaxNumeric
              IN  IsRangePart(part) =>
                      /\ q.kind = IF date THEN "DateRange" ELSE "NumericRange"
                      /\ q.field = b[1].s
                      /\ date => parsed.ok
                      /\ ~date => ParseFloat(SignedText(b)).ok
                      /\ IF greater
                         THEN /\ q.min = v /\ q.minInclusive = orEqual
                              /\ q.max = highest /\ q.maxInclusive = TRUE
                         ELSE /\ q.max = v /\ q.maxInclusive = orEqual
                              /\ q.min = lowest /\ q.minInclusive = TRUE

C6_Witness ==
    /\ Succeeded
    /\ Len(Parts) = 1
    /\ Types(Toks) = <<"tSTRING", "tCOLON", "tGREATER", "tPHRASE">>
    /\ options.dateFormat = CustomLayout
    /\ ret.rq.should[1].kind = "DateRange"
    /\ ~ret.rq.should[1].minInclusive

\* the lexer reached the end of the query
LexedAll == tokens # <<>> /\ tokens[Len(tokens)].type = "$end"

\* the sequences the grammar is said to reject: BOOST with no base before
\* it; field: and then MINUS STRING, PLUS, TILDE, BOOST or COLON; field: and
\* a range operator and then STRING
Rejected(ts) ==
    \/ Ty(ts, 1) = "tBOOST"
    \/ \E i \in 1..Len(ts) :
          /\ Ty(ts, i) = "tSTRING"
          /\ Ty(ts, i + 1) = "tCOLON"
          /\ \/ Ty(ts, i + 2) = "tMINUS" /\ Ty(ts, i + 3) = "tSTRING"
             \/ Ty(ts, i + 2) \in {"tPLUS", "tTILDE", "tBOOST", "tCOLON"}
             \/ /\ Ty(ts, i + 2) \in {"tGREATER", "tLESS"}
                /\ \/ Ty(ts, i + 3) = "tSTRING"
                   \/ Ty(ts, i + 3) = "tEQUAL" /\ Ty(ts, i + 4) = "tSTRING"

C8_StringTokenNode ==
    pc = "parsing" =>
        /\ ReduceRule(Top.st, lookahead) = 8 =>
              queryStringStringToken(<<>>, Arg(1, 1).s)
                  = Returns(StringNode(<<>>, Arg(1, 1).s, <<>>), NoError)
        /\ ReduceRule(Top.st, lookahead) = 13 =>
              queryStringStringToken(Arg(3, 1).s, Arg(3, 3).s)
                  = Returns(StringNode(Arg(3, 1).s, Arg(3, 3).s, <<>>), NoError)

\* C9: a call returns a query only if the lexer reached the end of the query
\* and the tokens are derivable from the grammar, none of the rejected
\* sequences among them; a syntax error is the only error of its call and
\* the call returns no query, whatever was appended to the tree before it.
C9_UnderivableFails ==
    /\ Succeeded => LexedAll /\ Derivable(Toks) /\ ~Rejected(Toks)
    /\ Failed => ret.rq = Nil
    /\ (Done /\ \E i \in 1..Len(errs) : errs[i] = <<"syntax error">>) =>
          /\ errs = <<<<"syntax error">>>>
          /\ ret.rq = Nil
          /\ ret.err # <<>>

C9_Witness ==
    /\ Failed
    /\ errs = <<<<"syntax error">>>>
    /\ Rejected(tokens)
    /\ Len(tree.should) >= 1
    /\ ret.rq = Nil

\* C10: a call that has not returned can take a step; a panic raised while
\* the parser runs is recovered, recorded as one error message, and the
\* call returns no query and an error; a call returns a query or an error,
\* never both and never neither.
C10_PanicsRecovered ==
    /\ pc # "done" => ENABLED Next
    /\ pc = "panic" => r # <<>>
    /\ Done => ((ret.rq = Nil) <=> (ret.err # <<>>))
    /\ (Done /\ r # <<>>) =>
          /\ errs = <<<<"parse error: ">> \o r[1]>>
          /\ ret.rq = Nil
          /\ ret.err # <<>>

C10_Witness ==
    /\ Done
    /\ r = <<SliceBoundsMsg>>
    /\ ret.rq = Nil
    /\ ret.err # <<>>

-----------------------------------------------------------------------------
(* The outcome of a call as a function of its query and options.           *)

\* the tokens the lexer returns for the runes of q from position i on, in
\* state st with buffer b: [toks, err], err the lexer's error or NoError
RECURSIVE LexFrom(_, _, _, _, _)
LexFrom(q, i, st, b, rx) ==
    IF i > Len(q)
    THEN LET e == LexEnd(st, b)
         IN  IF e.err # NoError THEN [toks |-> <<>>, err |-> e.err]
             ELSE IF st = "start" THEN [toks |-> e.emit, err |-> NoError]
             ELSE [toks |-> e.emit \o <<EndToken>>, err |-> NoError]
    ELSE LET x == LexRune(st, b, rx, q[i])
             rest == LexFrom(q, IF x.consumed THEN i + 1 ELSE i, x.st, x.buf, x.rx)
         IN  [toks |-> x.emit \o rest.toks, err |-> rest.err]

Tokenize(q) == LexFrom(q, 1, "start", <<>>, FALSE)

\* every value of the part parses, and its builder returns
ValuesParse(part, layout) ==
    /\ part.suffix # <<>> => ParseFloat(part.suffix[1].s).ok
    /\ IsFuzzyPart(part) => ParseFloat(LastOf(part).s).ok
    /\ IsNumberPart(part) => ParseFloat(SignedText(part.base)).ok
    /\ IsRangePart(part) =>
          IF LastOf(part).type = "tPHRASE"
          THEN TimeParse(layout, LastOf(part).s).ok
          ELSE ParseFloat(SignedText(part.base)).ok
    /\ LastOf(part).type = "tSTRING" => LastOf(part).s # <<"/">>

\* what a call returned: a query, or a failure
Query(q) == [ok |-> TRUE, rq |-> q]
Failure == [ok |-> FALSE, rq |-> Nil]
Outcome(rt) == IF rt.err = <<>> THEN Query(rt.rq) ELSE Failure

\* the outcome of ParseQueryString(q, o) with no debug lines: the Boolean
\* of the clauses of q's searchParts, or a failure
Parsed(q, o) ==
    LET lexed == Tokenize(q)
        ts == SubSeq(lexed.toks, 1, Len(lexed.toks) - 1)
        ps == GrammarParts(ts, 1).parts
    IN  IF q = <<>> THEN Query([kind |-> "MatchNone"])
        ELSE IF lexed.err # NoError \/ ~Derivable(ts) THEN Failure
        ELSE IF \E i \in 1..Len(ps) : ~ValuesParse(ps[i], o.dateFormat) THEN Failure
        ELSE Query([kind |-> "Boolean",
                    should |-> ClausesOf(ps, "none", o.dateFormat),
                    must |-> ClausesOf(ps, "tPLUS", o.dateFormat),
                    mustNot |-> ClausesOf(ps, "tMINUS", o.dateFormat),
                    boost |-> <<>>])

\* the options o with the debug flags off and no logger
Quiet(o) ==
    [o EXCEPT !.debugParser = FALSE, !.debugLexer = FALSE, !.logger = "nil"]

\* C11: whatever the debug flags and the logger of its options, a call
\* that read its whole query returns what the call with the same query and
\* date format, the debug flags off and no logger returns: the same tree,
\* or a failure as well.
C11_DebugOptionsNoEffect ==
    (Done /\ eof) => Outcome(ret) = Parsed(query, Quiet(options))

\* C12: in the tree of a successful parse every boost set on a clause and
\* every fuzziness of a clause is at least 0, and every suffix value is a
\* number and is the value its clause holds.
C12_SuffixValuesNonNegative ==
    Succeeded =>
        \A i \in 1..Len(Parts) :
            LET part == Parts[i]
                q == NodeOfPart(ret.rq, Parts, i)
            IN  /\ q.boost # <<>> => q.boost[1] >= 0
                /\ q.kind = "Match" => q.fuzziness >= 0
                /\ part.suffix # <<>> =>
                      /\ ParseFloat(part.suffix[1].s).ok
                      /\ q.boost = <<Value(part.suffix[1].s)>>
                /\ IsFuzzyPart(part) =>
                      /\ ParseFloat(LastOf(part).s).ok
                      /\ q.fuzziness = Value(LastOf(part).s)

\* the outcome of ParseQueryString(q, o) run alone: with debug lines and no
\* logger the first line written ends a non-empty query's parse
Alone(q, o) ==
    IF q # <<>> /\ LogPanics(o) THEN Failure ELSE Parsed(q, o)

\* the call with frame f, if it has returned, returned what it returns when
\* run alone, from its own tree and its own errors: no error but its one
\* syntax error, or the panic it recovered
ReturnedAsAlone(f) ==
    f.pc = "done" =>
        /\ Outcome(f.ret) = Alone(f.query, f.options)
        /\ f.ret.err = <<>> <=> f.errs = <<>>
        /\ (f.created /\ f.ret.err = <<>>) => f.ret.rq = f.tree
        /\ f.errs \in {<<>>, <<<<"syntax error">>>>}
              \cup {<<<<"parse error: ">> \o f.r[k]>> : k \in 1..Len(f.r)}

\* C13: under every interleaving of two calls, with one logger for both,
\* each call that has returned returned the outcome of that call run alone
\* on its query and options, built from its own lexer, error list and tree;
\* a call that ran to its end before the other began is among them.
C13_CallsIndependent ==
    /\ ReturnedAsAlone(Frame)
    /\ \A k \in 1..Len(other) : ReturnedAsAlone(other[k])

C13_Witness ==
    /\ Len(other) = 1
    /\ Done /\ created /\ Outcome(ret).ok
    /\ Len(ret.rq.should) = 2
    /\ other[1].pc = "done" /\ other[1].created
    /\ ~Outcome(other[1].ret).ok
    /\ other[1].errs = <<<<"syntax error">>>>
    /\ logged > 0

\* C14: only the query of length zero takes the shortcut to the match-none
\* query; a query of spaces alone goes through the parser, which finds the
\* end of the input where a searchBase is due: the call returns no query
\* and the syntax error; every Boolean a call returns has a clause.
C14_WhitespaceOnlyIsSyntaxError ==
    /\ Done => (created <=> query # <<>>)
    /\ (Done /\ ret.rq = [kind |-> "MatchNone"]) => query = <<>>
    /\ (Done /\ created /\ eof /\ AllIn(query, {" "})) =>
          /\ tokens = <<EndToken>>
          /\ errs = <<<<"syntax error">>>>
          /\ ret.rq = Nil
          /\ ret.err # <<>>
    /\ Succeeded =>
          /\ ret.rq.kind = "Boolean"
          /\ Len(ret.rq.should) + Len(ret.rq.must) + Len(ret.rq.mustNot) >= 1

C14_Witness ==
    /\ Done /\ created /\ eof
    /\ query = <<" ", " ">>
    /\ errs = <<<<"syntax error">>>>
    /\ ret.rq = Nil
    /\ ret.err # <<>>

====
